---- MODULE Spec2Model ----
(***************************************************************************)
(* Starpoint TypeScript SDK: request validation, columnar transpose, error *)
(* normalisation and HTTP dispatch of the endpoint factories.              *)
(*                                                                         *)
(* The source tree holds several revisions of the writer factories.  The   *)
(* variable `variant` names the revision a client was built from:          *)
(*   "axios"  - factories sharing handleError (utility.ts)                 *)
(*   "inline" - factories with a catch block written out in each factory   *)
(*   "ky"     - factories on the ky client with the async handleError      *)
(***************************************************************************)
EXTENDS Integers, Sequences, FiniteSets, TLC

VARIABLES variant, calls, defaults, clients,
          revision, openAIApiClient, inits, builds

vars == <<variant, calls, defaults, clients,
         revision, openAIApiClient, inits, builds>>

(* The state of the OpenAI integration *)
openAIVars == <<revision, openAIApiClient, inits, builds>>

(* Longest documents / embeddings / document_metadata / ids list drawn.    *)
MaxDocs == 2

Variants == {"axios", "inline", "ky"}

-----------------------------------------------------------------------------
(* JavaScript values.  Every value is a tagged record; "absent" marks a    *)
(* key that the object does not have (reading it yields undefined).        *)

Absent == [t |-> "absent", v |-> <<>>]
Undefined == [t |-> "undefined", v |-> <<>>]
Null == [t |-> "null", v |-> <<>>]
Str(s) == [t |-> "str", v |-> s]
Num(n) == [t |-> "num", v |-> n]
Arr(s) == [t |-> "arr", v |-> s]
(* A metadata mapping, by its set of keys *)
Obj(keys) == [t |-> "obj", v |-> keys]

(* "key" in object *)
In(x) == x.t # "absent"

(* !x *)
Falsy(x) ==
  \/ x.t \in {"absent", "undefined", "null"}
  \/ x.t = "str" /\ x.v = ""
  \/ x.t = "num" /\ x.v = 0

(* x.length === 0 : only arrays and strings have a length property *)
LengthIsZero(x) ==
  \/ x.t = "arr" /\ Len(x.v) = 0
  \/ x.t = "str" /\ x.v = ""

(* x === undefined || x === null *)
IsNullish(x) == x.t \in {"absent", "undefined", "null"}

-----------------------------------------------------------------------------
(* Paths and messages.                                                     *)

COLLECTIONS_PATH == "/api/v1/collections"
DOCUMENTS_PATH == "/api/v1/documents"
QUERY_PATH == "/api/v1/query"
INFER_SCHEMA_PATH == "/api/v1/infer_schema"
EMBED_PATH == "/api/v1/embed"

MISSING_EMBEDDING_IN_DOCUMENT_ERROR ==
  "Did not specify an embedding for a document in the request"
MISSING_COLLECTION_IDENTIFIER_ERROR ==
  "Did not specify id or name identifier for collection in request"
NULL_COLLECTION_ID_ERROR == "Id cannot be null for collection in request"
NULL_COLLECTION_NAME_ERROR ==
  "Name identifier cannot be null for collection in request"
MULTIPLE_COLLECTION_IDENTIFIER_ERROR ==
  "Request has too many identifiers. Either pass in openai_key or openai_key_filepath, not both"
MISSING_COLLECTION_ID_ERROR == "Did not specify collection_id in request"
MISSING_DOCUMENT_IN_REQUEST_ERROR == "Did not specify documents in request"
MISSING_DOCUMENT_ID_IN_REQUEST_ERROR ==
  "Did not specify an id for a document in the request"
MISSING_DOCUMENT_METADATA_IN_REQUEST_ERROR ==
  "Did not specify metadata for a document in the request"
MISSING_DOCUMENT_IDS_IN_DELETE_REQUEST_ERROR ==
  "Did not specify document id(s) to delete in request"
INTERNAL_SERVER_ERROR == "Internal server error"
CREATE_COLLECTION_MISSING_NAME_ERROR ==
  "Did not specify name of collection in request"
CREATE_COLLECTION_MISSING_DIMENSIONALITY_ERROR ==
  "Did not specify dimensionality of collection in request"
CREATE_COLLECTION_DIMENSIONALITY_LTE_ZERO_ERROR ==
  "Dimensionality cannot be less than or equal to 0"
(* `Invalid model: ${model}. Valid models are MINI6 and MINI12.` *)
InvalidModelError(model) ==
  "Invalid model: " \o (IF model.t = "str" THEN model.v ELSE "undefined")
    \o ". Valid models are MINI6 and MINI12."

EMBEDDING_MODELS == {"MINI6", "MINI12"}

(* Validators return OK or the message of the Error they throw.            *)
OK == "ok"

-----------------------------------------------------------------------------
(* Requests.  A request object is a record over every key an endpoint      *)
(* reads; Absent marks a key the caller did not pass.                      *)

EmptyRequest ==
  [collection_id |-> Absent, collection_name |-> Absent,
   documents |-> Absent, embeddings |-> Absent, document_metadata |-> Absent,
   ids |-> Absent, name |-> Absent, dimensionality |-> Absent,
   model |-> Absent]

(* Faulty: the check for a request with neither identifier is left out.    *)
sanitizeWithoutMissingCheck(request) ==
  IF In(request.collection_id) /\ In(request.collection_name)
    THEN MULTIPLE_COLLECTION_IDENTIFIER_ERROR
  ELSE IF ~In(request.collection_id) /\ In(request.collection_name)
          /\ Falsy(request.collection_name)
    THEN NULL_COLLECTION_NAME_ERROR
  ELSE IF ~In(request.collection_name) /\ In(request.collection_id)
          /\ Falsy(request.collection_id)
    THEN NULL_COLLECTION_ID_ERROR
  ELSE OK

(* Faulty: an identifier is only tested for presence, not for its value.   *)
sanitizeWithoutNullChecks(request) ==
  IF In(request.collection_id) /\ In(request.collection_name)
    THEN MULTIPLE_COLLECTION_IDENTIFIER_ERROR
  ELSE IF ~In(request.collection_id) /\ ~In(request.collection_name)
    THEN MISSING_COLLECTION_IDENTIFIER_ERROR
  ELSE OK

(* sanitizeCollectionIdentifiersInRequest: the thrown message, or OK.      *)
sanitizeCollectionIdentifiersInRequest(request) ==
  IF In(request.collection_id) /\ In(request.collection_name)
    THEN MULTIPLE_COLLECTION_IDENTIFIER_ERROR
  ELSE IF ~In(request.collection_id) /\ ~In(request.collection_name)
    THEN MISSING_COLLECTION_IDENTIFIER_ERROR
  ELSE IF ~In(request.collection_id) /\ In(request.collection_name)
          /\ Falsy(request.collection_name)
    THEN NULL_COLLECTION_NAME_ERROR
  ELSE IF ~In(request.collection_name) /\ In(request.collection_id)
          /\ Falsy(request.collection_id)
    THEN NULL_COLLECTION_ID_ERROR
  ELSE OK

(* !request.documents || request.documents.length === 0 *)
DocumentsMissing(request) ==
  Falsy(request.documents) \/ LengthIsZero(request.documents)

(* !document.embedding || document.embedding.length === 0 *)
EmbeddingMissing(document) ==
  Falsy(document.embedding) \/ LengthIsZero(document.embedding)

(* !document.metadata || document.metadata.length === 0 *)
MetadataMissing(document) ==
  Falsy(document.metadata) \/ LengthIsZero(document.metadata)

(* !document.id *)
IdMissing(document) == Falsy(document.id)

(* request.documents.some(...) of the three document checks *)
SomeEmbeddingMissing(documents) ==
  \E i \in 1..Len(documents.v) : EmbeddingMissing(documents.v[i])

SomeIdMissing(documents) ==
  \E i \in 1..Len(documents.v) : IdMissing(documents.v[i])

SomeMetadataMissing(documents) ==
  \E i \in 1..Len(documents.v) : MetadataMissing(documents.v[i])

(* insertDocumentsFactory on axios: the checks before the HTTP call.       *)
insertDocumentsChecksAxios(request) ==
  IF sanitizeCollectionIdentifiersInRequest(request) # OK
    THEN sanitizeCollectionIdentifiersInRequest(request)
  ELSE IF DocumentsMissing(request)
    THEN MISSING_DOCUMENT_IN_REQUEST_ERROR
  ELSE IF SomeEmbeddingMissing(request.documents)
    THEN MISSING_EMBEDDING_IN_DOCUMENT_ERROR
  ELSE OK

(* insertDocumentsFactory on ky: the checks before the HTTP call.          *)
insertDocumentsChecksKy(request) ==
  IF sanitizeCollectionIdentifiersInRequest(request) # OK
    THEN sanitizeCollectionIdentifiersInRequest(request)
  ELSE IF DocumentsMissing(request)
    THEN MISSING_DOCUMENT_IN_REQUEST_ERROR
  ELSE OK

(* updateDocumentsFactory on axios: the checks before the HTTP call.       *)
updateDocumentsChecksAxios(request) ==
  IF sanitizeCollectionIdentifiersInRequest(request) # OK
    THEN sanitizeCollectionIdentifiersInRequest(request)
  ELSE IF DocumentsMissing(request)
    THEN MISSING_DOCUMENT_IN_REQUEST_ERROR
  ELSE IF SomeIdMissing(request.documents)
    THEN MISSING_DOCUMENT_ID_IN_REQUEST_ERROR
  ELSE IF SomeMetadataMissing(request.documents)
    THEN MISSING_DOCUMENT_METADATA_IN_REQUEST_ERROR
  ELSE OK

(* updateDocumentsFactory on ky: the checks before the HTTP call.          *)
updateDocumentsChecksKy(request) ==
  IF sanitizeCollectionIdentifiersInRequest(request) # OK
    THEN sanitizeCollectionIdentifiersInRequest(request)
  ELSE IF DocumentsMissing(request)
    THEN MISSING_DOCUMENT_IN_REQUEST_ERROR
  ELSE OK

(* Faulty: only !request.ids is tested, an empty list passes.              *)
deleteDocumentsChecksWithoutLength(request) ==
  IF sanitizeCollectionIdentifiersInRequest(request) # OK
    THEN sanitizeCollectionIdentifiersInRequest(request)
  ELSE IF Falsy(request.ids)
    THEN MISSING_DOCUMENT_IDS_IN_DELETE_REQUEST_ERROR
  ELSE OK

(* The checks deleteDocumentsFactory runs before the HTTP call.            *)
deleteDocumentsChecks(request) ==
  IF sanitizeCollectionIdentifiersInRequest(request) # OK
    THEN sanitizeCollectionIdentifiersInRequest(request)
  ELSE IF Falsy(request.ids) \/ LengthIsZero(request.ids)
    THEN MISSING_DOCUMENT_IDS_IN_DELETE_REQUEST_ERROR
  ELSE OK

(* Faulty: dimensionality is tested with !request.dimensionality.          *)
createCollectionChecksFalsyDimensionality(request) ==
  IF Falsy(request.name)
    THEN CREATE_COLLECTION_MISSING_NAME_ERROR
  ELSE IF Falsy(request.dimensionality)
    THEN CREATE_COLLECTION_MISSING_DIMENSIONALITY_ERROR
  ELSE IF request.dimensionality.v <= 0
    THEN CREATE_COLLECTION_DIMENSIONALITY_LTE_ZERO_ERROR
  ELSE OK

(* The checks createCollectionFactory runs before the HTTP call.           *)
createCollectionChecks(request) ==
  IF Falsy(request.name)
    THEN CREATE_COLLECTION_MISSING_NAME_ERROR
  ELSE IF IsNullish(request.dimensionality)
    THEN CREATE_COLLECTION_MISSING_DIMENSIONALITY_ERROR
  ELSE IF request.dimensionality.v <= 0
    THEN CREATE_COLLECTION_DIMENSIONALITY_LTE_ZERO_ERROR
  ELSE OK

(* The check deleteCollectionFactory runs before the HTTP call.            *)
deleteCollectionChecks(request) ==
  IF Falsy(request.collection_id) THEN MISSING_COLLECTION_ID_ERROR ELSE OK

(* Faulty: any model that is a string is accepted.                         *)
validateEmbeddingModelAnyString(model) ==
  IF model.t = "str" THEN OK ELSE InvalidModelError(model)

(* validateEmbeddingModel(req.model) *)
validateEmbeddingModel(model) ==
  IF model.t = "str" /\ model.v \in EMBEDDING_MODELS
    THEN OK ELSE InvalidModelError(model)

(* zip: pairs up to the shorter list's length *)
Min(a, b) == IF a <= b THEN a ELSE b

(* Faulty: one pair per element of listA, padded with undefined.           *)
zipPadded(listA, listB) ==
  [index \in 1..Len(listA) |->
     <<listA[index], IF index <= Len(listB) THEN listB[index] ELSE Undefined>>]

zip(listA, listB) ==
  [index \in 1..Min(Len(listA), Len(listB)) |-> <<listA[index], listB[index]>>]

(* columnInsertFactory's transpose: the request handed to insertDocuments  *)
Transpose(request) ==
  LET columns == zip(request.embeddings.v, request.document_metadata.v)
      documents == [i \in 1..Len(columns) |->
                      [id |-> Absent,
                       embedding |-> columns[i][1],
                       metadata |-> columns[i][2]]]
  IN [request EXCEPT !.embeddings = Absent,
                     !.document_metadata = Absent,
                     !.documents = Arr(documents)]

-----------------------------------------------------------------------------
(* Errors, promises and the catch blocks.                                  *)

(* new Error(message) *)
PlainError(message) == [name |-> "Error", message |-> message, response |-> Absent]

(* An AxiosError; response is the response's data, Absent without response *)
AxiosError(response) ==
  [name |-> "AxiosError", message |-> "Request failed", response |-> response]

(* ky's HTTPError; response is the JSON body, Unparseable when json() fails *)
Unparseable == [t |-> "unparseable", v |-> <<>>]

HTTPError(response) ==
  [name |-> "HTTPError", message |-> "Request failed", response |-> response]

TYPE_ERROR == "Cannot read properties of undefined (reading 'length')"
JSON_ERROR == "Unexpected end of JSON input"

Pending == [state |-> "pending", value |-> Undefined]
Resolved(value) == [state |-> "resolved", value |-> value]
Rejected(message) == [state |-> "rejected", value |-> Str(message)]

(* { data, error } *)
APIResult(data, error) == [t |-> "result", v |-> [data |-> data, error |-> error]]

(* { error_message: message } *)
ErrorResponse(message) == [t |-> "error_response", v |-> message]

(* A JSON body the service sent *)
Body(b) == [t |-> "body", v |-> b]

(* err?.response?.data *)
ResponseData(err) == IF In(err.response) THEN err.response ELSE Undefined

(* handleError on axios (synchronous) *)
handleError(err) ==
  IF err.name = "AxiosError"
    THEN APIResult(Null, ResponseData(err))
    ELSE APIResult(Null, ErrorResponse(err.message))

(* handleError on ky (async): the promise it returns *)
handleErrorKy(err) ==
  IF err.name = "HTTPError"
    THEN IF err.response = Unparseable
           THEN Rejected(JSON_ERROR)
           ELSE Resolved(APIResult(Null, err.response))
    ELSE Resolved(APIResult(Null, ErrorResponse(err.message)))

(* The catch block written out in the "inline" insertDocumentsFactory: a   *)
(* non-axios error falls off the end of the function.                      *)
insertDocumentsCatchInline(err) ==
  IF err.name = "AxiosError"
    THEN APIResult(Null, ResponseData(err))
    ELSE Undefined

(* Faulty: the response itself, not its body, is handed back as data.      *)
ReturnedWholeResponse(response) ==
  Resolved(APIResult([t |-> "response", v |-> response.v], Null))

(* return { data: response.data, error: null } *)
Returned(response) == Resolved(APIResult(response, Null))

(* The promise an endpoint returns once its try block threw err.  `inner`  *)
(* is the factory whose catch block runs.                                  *)
Caught(v, inner, err) ==
  IF v = "ky" THEN handleErrorKy(err)
  ELSE IF v = "inline" /\ inner = "insertDocuments"
    THEN Resolved(insertDocumentsCatchInline(err))
  ELSE Resolved(handleError(err))

-----------------------------------------------------------------------------
(* Endpoints and the requests callers pass.                                *)

Endpoints ==
  {"insertDocuments", "columnInsert", "updateDocuments", "deleteDocuments",
   "queryDocuments", "inferSchema", "createCollection", "deleteCollection",
   "embed"}

(* Sequences over S of length 0..MaxDocs *)
SeqsUpTo(S) == UNION {[1..n -> S] : n \in 0..MaxDocs}

CollectionIds == {Absent, Null, Str(""), Str("c1")}
CollectionNames == {Absent, Str(""), Str("n1")}

Embeddings == {Arr(<<>>), Arr(<<1>>), Arr(<<2>>)}
Metadatas == {Null, Obj({}), Obj({"car"})}

InsertDocument ==
  [id : {Absent},
   embedding : {Absent, Null, Arr(<<>>), Arr(<<1>>)},
   metadata : {Absent, Obj({"car"})}]

UpdateDocument ==
  [id : {Absent, Str("d1")},
   embedding : {Absent},
   metadata : {Absent, Null, Obj({}), Obj({"car"})}]

ByWrapper(request) ==
  {[request EXCEPT !.collection_id = id, !.collection_name = nm] :
     id \in CollectionIds, nm \in CollectionNames}

Requests(ep) ==
  CASE ep = "insertDocuments" ->
         UNION {ByWrapper([EmptyRequest EXCEPT !.documents = d]) :
                  d \in {Absent, Null} \cup {Arr(ds) : ds \in SeqsUpTo(InsertDocument)}}
    [] ep = "columnInsert" ->
         UNION {ByWrapper([EmptyRequest EXCEPT !.embeddings = e,
                                               !.document_metadata = m]) :
                  e \in {Absent} \cup {Arr(es) : es \in SeqsUpTo(Embeddings)},
                  m \in {Absent} \cup {Arr(ms) : ms \in SeqsUpTo(Metadatas)}}
    [] ep = "updateDocuments" ->
         UNION {ByWrapper([EmptyRequest EXCEPT !.documents = d]) :
                  d \in {Absent, Null} \cup {Arr(ds) : ds \in SeqsUpTo(UpdateDocument)}}
    [] ep = "deleteDocuments" ->
         UNION {ByWrapper([EmptyRequest EXCEPT !.ids = i]) :
                  i \in {Absent, Null} \cup {Arr(is) : is \in SeqsUpTo({"d1", "d2"})}}
    [] ep \in {"queryDocuments", "inferSchema"} ->
         ByWrapper(EmptyRequest)
    [] ep = "createCollection" ->
         {[EmptyRequest EXCEPT !.name = n, !.dimensionality = d,
                               !.collection_id = id, !.collection_name = nm] :
            n \in {Absent, Str(""), Str("n1")},
            d \in {Absent, Null, Num(-1), Num(0), Num(1), Num(5)},
            id \in {Absent, Str("c1")}, nm \in {Absent, Str("n1")}}
    [] ep = "deleteCollection" ->
         {[EmptyRequest EXCEPT !.collection_id = id, !.collection_name = nm] :
            id \in CollectionIds, nm \in {Absent, Str("n1")}}
    [] ep = "embed" ->
         {[EmptyRequest EXCEPT !.model = m,
                               !.collection_id = id, !.collection_name = nm] :
            m \in {Absent, Str("MINI6"), Str("MINI12"), Str("MINI24")},
            id \in {Absent, Str("c1")}, nm \in {Absent, Str("n1")}}

-----------------------------------------------------------------------------
(* The endpoint factories.                                                 *)

(* The factory whose try block issues the HTTP call of endpoint ep.        *)
Inner(ep) == IF ep = "columnInsert" THEN "insertDocuments" ELSE ep

(* The message thrown by factory ep's own checks on request, or OK.        *)
Checks(v, ep, request) ==
  CASE ep = "insertDocuments" ->
         IF v = "ky" THEN insertDocumentsChecksKy(request)
                     ELSE insertDocumentsChecksAxios(request)
    [] ep = "columnInsert" ->
         IF sanitizeCollectionIdentifiersInRequest(request) # OK
           THEN sanitizeCollectionIdentifiersInRequest(request)
         ELSE IF request.embeddings.t # "arr" \/ request.document_metadata.t # "arr"
           THEN TYPE_ERROR
         ELSE OK
    [] ep = "updateDocuments" ->
         IF v = "ky" THEN updateDocumentsChecksKy(request)
                     ELSE updateDocumentsChecksAxios(request)
    [] ep = "deleteDocuments" -> deleteDocumentsChecks(request)
    [] ep \in {"queryDocuments", "inferSchema"} ->
         sanitizeCollectionIdentifiersInRequest(request)
    [] ep = "createCollection" -> createCollectionChecks(request)
    [] ep = "deleteCollection" -> deleteCollectionChecks(request)
    [] ep = "embed" -> validateEmbeddingModel(request.model)

(* Faulty: deleteDocuments is sent as a POST.                              *)
HttpCallDeleteAsPost(ep, request) ==
  CASE ep = "insertDocuments" ->
         [method |-> "POST", path |-> DOCUMENTS_PATH, client |-> "writer", body |-> request]
    [] ep = "updateDocuments" ->
         [method |-> "PATCH", path |-> DOCUMENTS_PATH, client |-> "writer", body |-> request]
    [] ep = "deleteDocuments" ->
         [method |-> "POST", path |-> DOCUMENTS_PATH, client |-> "writer", body |-> request]
    [] ep = "queryDocuments" ->
         [method |-> "POST", path |-> QUERY_PATH, client |-> "reader", body |-> request]
    [] ep = "inferSchema" ->
         [method |-> "POST", path |-> INFER_SCHEMA_PATH, client |-> "reader", body |-> request]
    [] ep = "createCollection" ->
         [method |-> "POST", path |-> COLLECTIONS_PATH, client |-> "writer", body |-> request]
    [] ep = "deleteCollection" ->
         [method |-> "DELETE", path |-> COLLECTIONS_PATH, client |-> "writer", body |-> request]
    [] ep = "embed" ->
         [method |-> "POST", path |-> EMBED_PATH, client |-> "embedding", body |-> request]

(* The HTTP call factory ep makes for a request that passed its checks.    *)
HttpCall(ep, request) ==
  CASE ep = "insertDocuments" ->
         [method |-> "POST", path |-> DOCUMENTS_PATH, client |-> "writer", body |-> request]
    [] ep = "updateDocuments" ->
         [method |-> "PATCH", path |-> DOCUMENTS_PATH, client |-> "writer", body |-> request]
    [] ep = "deleteDocuments" ->
         [method |-> "DELETE", path |-> DOCUMENTS_PATH, client |-> "writer", body |-> request]
    [] ep = "queryDocuments" ->
         [method |-> "POST", path |-> QUERY_PATH, client |-> "reader", body |-> request]
    [] ep = "inferSchema" ->
         [method |-> "POST", path |-> INFER_SCHEMA_PATH, client |-> "reader", body |-> request]
    [] ep = "createCollection" ->
         [method |-> "POST", path |-> COLLECTIONS_PATH, client |-> "writer", body |-> request]
    [] ep = "deleteCollection" ->
         [method |-> "DELETE", path |-> COLLECTIONS_PATH, client |-> "writer", body |-> request]
    [] ep = "embed" ->
         [method |-> "POST", path |-> EMBED_PATH, client |-> "embedding", body |-> request]

(* Faulty: columnInsert deletes the two column keys from the object it     *)
(* was passed instead of destructuring it.                                 *)
RequestAfterDeletingColumns(ep, request) ==
  IF ep = "columnInsert"
    THEN [request EXCEPT !.embeddings = Absent, !.document_metadata = Absent]
    ELSE request

(* The caller's request object once factory ep has run: the factories only *)
(* read it, and columnInsertFactory destructures it into new bindings      *)
(* ({ embeddings, document_metadata, ...rest } = request).                 *)
RequestAfterCall(ep, request) == request

(* A factory other than columnInsert, run up to its first await or its     *)
(* return: the message thrown in its try block (OK if none), the HTTP      *)
(* calls issued and the promise returned.                                  *)
RunFactory(v, ep, request) ==
  IF Checks(v, ep, request) # OK
    THEN [thrown |-> Checks(v, ep, request),
          http |-> <<>>,
          outcome |-> Caught(v, ep, PlainError(Checks(v, ep, request)))]
    ELSE [thrown |-> OK,
          http |-> <<HttpCall(ep, request)>>,
          outcome |-> Pending]

(* columnInsertFactory: own checks, transpose, then insertDocuments.       *)
RunColumnInsert(v, request) ==
  IF Checks(v, "columnInsert", request) # OK
    THEN [thrown |-> Checks(v, "columnInsert", request),
          http |-> <<>>, delegated |-> <<>>,
          outcome |-> Caught(v, "columnInsert",
                             PlainError(Checks(v, "columnInsert", request)))]
    ELSE [thrown |-> RunFactory(v, "insertDocuments", Transpose(request)).thrown,
          http |-> RunFactory(v, "insertDocuments", Transpose(request)).http,
          delegated |-> <<Transpose(request)>>,
          outcome |-> RunFactory(v, "insertDocuments", Transpose(request)).outcome]

(* Endpoint ep called with request. *)
Run(v, ep, request) ==
  IF ep = "columnInsert"
    THEN RunColumnInsert(v, request)
    ELSE [thrown |-> RunFactory(v, ep, request).thrown,
          http |-> RunFactory(v, ep, request).http,
          delegated |-> <<>>,
          outcome |-> RunFactory(v, ep, request).outcome]

(* What the transport can throw at an awaiting factory. *)
TransportErrors(v) ==
  IF v = "ky"
    THEN {HTTPError(Body("upstream error")), HTTPError(Unparseable),
          PlainError("fetch failed"), PlainError(JSON_ERROR)}
    ELSE {AxiosError(Body("upstream error")), AxiosError(Absent),
          PlainError(INTERNAL_SERVER_ERROR)}

ResponseBodies == {Body("response")}

-----------------------------------------------------------------------------
(* initialize: host validation, the API key header and the three clients.  *)
(* A host string is a sequence of chunks, so that a trailing "/" can be    *)
(* told from the rest; the empty string is <<>>.                           *)

WRITER_URL == <<"https://writer.starpoint.ai">>
READER_URL == <<"https://reader.starpoint.ai">>
(* The value of EMBEDDING_URL is not part of the sources: a symbolic host. *)
EMBEDDING_URL == <<"EMBEDDING_URL">>
MISSING_HOST_ERROR == "No host value provided. A host must be provided."

(* An option of initialize: omitted, or a host string. *)
Host(chunks) == [t |-> "host", v |-> chunks]

(* The host strings the URL syntax check accepts. *)
isURL(host) ==
  host \in {<<"https://h.example">>, <<"https://h.example", "/">>}

RECURSIVE Text(_)
Text(chunks) ==
  IF chunks = <<>> THEN "" ELSE Head(chunks) \o Text(Tail(chunks))

(* setAndValidateHost: the message thrown (OK if none) and the value       *)
(* returned, host.replace(/\/$/, "").                                      *)
setAndValidateHost(host) ==
  IF host = <<>>
    THEN [thrown |-> MISSING_HOST_ERROR, value |-> <<>>]
  ELSE IF ~isURL(host)
    THEN [thrown |-> "Provided host " \o Text(host) \o " is not a valid URL format.",
          value |-> <<>>]
  ELSE [thrown |-> OK,
        value |-> IF host[Len(host)] = "/"
                    THEN SubSeq(host, 1, Len(host) - 1) ELSE host]

(* hostURL ? setAndValidateHost(hostURL) : URL *)
BaseURL(hostURL, URL) ==
  IF hostURL.t = "absent" \/ hostURL.v = <<>>
    THEN [thrown |-> OK, value |-> URL]
    ELSE setAndValidateHost(hostURL.v)

initWriter(writerHostURL) == BaseURL(writerHostURL, WRITER_URL)
initReader(readerHostURL) == BaseURL(readerHostURL, READER_URL)
initEmbedding(embeddingHostURL) == BaseURL(embeddingHostURL, EMBEDDING_URL)

(* axios.defaults.headers.common[API_KEY_HEADER_NAME] before any initialize *)
NoKey == "none"

(* Faulty: the instance is created without the default headers.            *)
createWithoutDefaults(defaultKey, baseURL) ==
  [baseURL |-> baseURL, headers |-> NoKey]

(* axios.create({ baseURL }): the instance takes a copy of the default     *)
(* headers as they are when it is created.                                 *)
create(defaultKey, baseURL) == [baseURL |-> baseURL, headers |-> defaultKey]

NoOptions ==
  [writerHostURL |-> Absent, readerHostURL |-> Absent, embeddingHostURL |-> Absent]

(* A slot for the client one initialize call returns. *)
NoClient ==
  [state |-> "none", apiKey |-> NoKey, options |-> NoOptions, thrown |-> OK,
   writer |-> create(NoKey, <<>>), reader |-> create(NoKey, <<>>),
   embedding |-> create(NoKey, <<>>)]

(* initialize(apiKey, options): the header is set first, then the writer,  *)
(* reader and embedding clients are created in that order; the first host  *)
(* that fails validation throws out of initialize.                         *)
initialize(apiKey, options) ==
  LET w == initWriter(options.writerHostURL)
      r == initReader(options.readerHostURL)
      e == initEmbedding(options.embeddingHostURL)
      thrown == IF w.thrown # OK THEN w.thrown
                ELSE IF r.thrown # OK THEN r.thrown
                ELSE e.thrown
  IN IF thrown # OK
       THEN [NoClient EXCEPT !.state = "threw", !.apiKey = apiKey,
                             !.options = options, !.thrown = thrown]
       ELSE [state |-> "ready", apiKey |-> apiKey, options |-> options,
             thrown |-> OK,
             writer |-> create(apiKey, w.value),
             reader |-> create(apiKey, r.value),
             embedding |-> create(apiKey, e.value)]

ApiKeys == {"k1", "k2"}
HostOptions ==
  {Absent, Host(<<>>), Host(<<"not a url">>), Host(<<"https://h.example", "/">>)}
Options ==
  [writerHostURL : HostOptions, readerHostURL : HostOptions,
   embeddingHostURL : HostOptions]
ClientIds == {1, 2}

(* Faulty: the key header is read from the shared defaults when the        *)
(* request is sent.                                                        *)
SentWithSharedDefaults(cl, https) ==
  [k \in 1..Len(https) |->
     [method |-> https[k].method, path |-> https[k].path,
      client |-> https[k].client, body |-> https[k].body,
      baseURL |-> cl[https[k].client].baseURL,
      headers |-> defaults]]

(* The request as axios sends it: the factory's call on the instance of    *)
(* client cl it was given, with that instance's base URL and headers.      *)
Sent(cl, https) ==
  [k \in 1..Len(https) |->
     [method |-> https[k].method, path |-> https[k].path,
      client |-> https[k].client, body |-> https[k].body,
      baseURL |-> cl[https[k].client].baseURL,
      headers |-> cl[https[k].client].headers]]

-----------------------------------------------------------------------------
(* The OpenAI integration: embeddings are built with OpenAI's              *)
(* createEmbedding and handed to columnInsert.  Three revisions exist:     *)
(* "package" (the starpoint-openai package), "module" (open-ai/index.ts of *)
(* the SDK) and "builtin" (the client that carries initOpenAI itself).     *)

MaxInputs == 2

Revisions == {"package", "module", "builtin"}

OPENAI_INSTANCE_INIT_ERROR ==
  "OpenAI instance has not been initialized. Please initialize it using \"client.initOpenai()\""
DEFAULT_TEXT_EMBEDDING_OPENAI_MODEL == "text-embedding-ada-002"
TYPE_ERROR_DATA == "Cannot read properties of undefined (reading 'data')"

(* let openAIApiClient: OpenAIApi | null = null *)
NoOpenAIApiClient == [state |-> "null", apiKey |-> Absent]

(* new OpenAIApi(new Configuration({ apiKey: openaiKey })) *)
initOpenAI(openaiKey) == [state |-> "ready", apiKey |-> openaiKey]

EmptyBuildRequest ==
  [collection_id |-> Absent, collection_name |-> Absent,
   input_data |-> Absent, document_metadata |-> Absent,
   model |-> Absent, openai_user |-> Absent]

(* { input: item } *)
InputMetadata(item) == [t |-> "input", v |-> item]

(* backfillDocumentMetadata: one { input } object per input *)
backfillDocumentMetadata(inputData) ==
  IF inputData.t = "str"
    THEN Arr(<<InputMetadata(inputData.v)>>)
    ELSE Arr([i \in 1..Len(inputData.v) |-> InputMetadata(inputData.v[i])])

(* One element of the embedding response's data array *)
EmbeddingItem(index) == [index |-> index, embedding |-> Arr(<<index>>)]

(* embeddingResponse.data, whose own data field is d *)
OpenAIResponse(d) == [t |-> "openai_response", v |-> d]

(* { openai_response, starpoint_response } *)
BuildData(openaiResponse, starpointResponse) ==
  [t |-> "build_response",
   v |-> [openai_response |-> openaiResponse,
          starpoint_response |-> starpointResponse]]

(* Array.prototype.sort((a, b) => a.index - b.index): stable, ascending    *)
InsertByIndex(item, sorted) ==
  LET before == {k \in 1..Len(sorted) : sorted[k].index <= item.index}
  IN SubSeq(sorted, 1, Cardinality(before))
       \o <<item>>
       \o SubSeq(sorted, Cardinality(before) + 1, Len(sorted))

RECURSIVE sortByIndex(_)
sortByIndex(items) ==
  IF items = <<>> THEN <<>>
  ELSE InsertByIndex(items[Len(items)],
                     sortByIndex(SubSeq(items, 1, Len(items) - 1)))

(* Faulty: the embeddings in the order of the response.                    *)
UnsortedEmbeddings(items) ==
  [k \in 1..Len(items) |-> items[k].embedding]

(* embeddingData.sort(...).map((embedding) => embedding.embedding) *)
SortedEmbeddings(items) ==
  [k \in 1..Len(items) |-> sortByIndex(items)[k].embedding]

(* The checks of the composite before its first await.                     *)
buildChecks(client, request) ==
  IF client.state = "null"
    THEN OPENAI_INSTANCE_INIT_ERROR
    ELSE sanitizeCollectionIdentifiersInRequest(request)

(* The metadata handed to columnInsert.  The package backfills a null or   *)
(* undefined document_metadata, the other revisions a null one only.       *)
requestedDocumentMetadata(rev, request) ==
  IF request.document_metadata.t = "null"
    THEN backfillDocumentMetadata(request.input_data)
  ELSE IF request.document_metadata.t \in {"absent", "undefined"}
    THEN IF rev = "package"
           THEN backfillDocumentMetadata(request.input_data)
           ELSE Undefined
  ELSE request.document_metadata

(* { embeddings, document_metadata: requestedDocumentMetadata, ...rest }   *)
columnInsertRequest(rev, request, items) ==
  [EmptyRequest EXCEPT
     !.collection_id = request.collection_id,
     !.collection_name = request.collection_name,
     !.embeddings = Arr(SortedEmbeddings(items)),
     !.document_metadata = requestedDocumentMetadata(rev, request)]

(* The external calls of the composite, in one record shape.               *)
CreateEmbeddingCall(client, request) ==
  [kind |-> "createEmbedding", apiKey |-> client.apiKey,
   model |-> request.model, input |-> request.input_data,
   user |-> request.openai_user, request |-> EmptyRequest]

ColumnInsertCall(request) ==
  [kind |-> "columnInsert", apiKey |-> Absent,
   model |-> Absent, input |-> Absent,
   user |-> Absent, request |-> request]

(* Faulty: any response goes on to columnInsert, null data included.       *)
afterEmbeddingWithoutNullCheck(response) ==
  IF response.t # "openai_response"
    THEN [insert |-> FALSE,
          outcome |-> Resolved(handleError(PlainError(TYPE_ERROR_DATA)))]
  ELSE [insert |-> TRUE, outcome |-> Pending]

(* The composite once createEmbedding resolved with response: whether it   *)
(* goes on to columnInsert, and the promise it returns if it does not.     *)
afterEmbedding(response) ==
  IF response.t # "openai_response"
    THEN [insert |-> FALSE,
          outcome |-> Resolved(handleError(PlainError(TYPE_ERROR_DATA)))]
  ELSE IF response.v.t = "null"
    THEN [insert |-> FALSE,
          outcome |-> Resolved(APIResult(BuildData(response, Null), Null))]
  ELSE [insert |-> TRUE, outcome |-> Pending]

(* The composite once the promise of columnInsert settled.                 *)
afterColumnInsert(response, promise) ==
  IF promise.state = "rejected"
    THEN Resolved(handleError(PlainError(promise.value.v)))
  ELSE IF promise.value.t # "result"
    THEN Resolved(handleError(PlainError(TYPE_ERROR_DATA)))
  ELSE Resolved(APIResult(
         BuildData(OpenAIResponse(Arr(sortByIndex(response.v.v))),
                   promise.value.v.data),
         Null))

(* The request the default-model entry point hands to the composite.       *)
withDefaultModel(request) ==
  [request EXCEPT !.model = Str(DEFAULT_TEXT_EMBEDDING_OPENAI_MODEL)]

(* Sequences without repetition over S of length 0..n *)
InjectiveSeqs(S, n) ==
  UNION {{s \in [1..k -> S] : \A i, j \in 1..k : s[i] = s[j] => i = j} :
           k \in 0..n}

(* What createEmbedding can resolve with: nothing, null data, or items in  *)
(* any order.                                                              *)
EmbeddingResponses ==
  {Undefined, OpenAIResponse(Null)}
    \cup {OpenAIResponse(Arr(items)) :
            items \in InjectiveSeqs({EmbeddingItem(i) : i \in 1..MaxInputs},
                                    MaxInputs)}

(* What createEmbedding can reject with.                                   *)
EmbeddingErrors ==
  {AxiosError(Body("openai error")), AxiosError(Absent),
   PlainError("socket hang up")}

InputTexts == <<"a", "b", "c", "d">>

Inputs ==
  {Str("a")} \cup {Arr(SubSeq(InputTexts, 1, n)) : n \in 1..MaxInputs}

BuildEntries == {"buildAndInsertEmbeddings", "buildAndInsertEmbeddingsNoDefault"}

(* The requests callers pass to an entry point; only the NoDefault one     *)
(* takes a model.                                                          *)
BuildRequests(entry) ==
  {[EmptyBuildRequest EXCEPT !.collection_id = id, !.collection_name = nm,
                             !.input_data = input, !.document_metadata = dm,
                             !.model = m] :
     id \in {Absent, Str(""), Str("c1")}, nm \in {Absent, Str("n1")},
     input \in Inputs,
     dm \in {Absent, Null, Arr(<<Obj({"car"})>>)},
     m \in IF entry = "buildAndInsertEmbeddings"
             THEN {Absent} ELSE {Str("text-image-ada-002")}}

(* initOpenAI of the "builtin" revision and its request check.  The file   *)
(* system holds one file and one directory.                                *)
Files == {"/openai.key"}
Directories == {"/keys"}

STAT_TYPE_ERROR ==
  "The \"path\" argument must be of type string or an instance of Buffer or URL. Received undefined"
STAT_ENOENT_ERROR == "ENOENT: no such file or directory, stat"
TOO_MANY_OPENAI_KEY_ERROR ==
  "Request has too many identifiers. Either pass in openai_key or openai_key_filepath, not both"
MISSING_OPENAI_KEY_IDENTIFIER_ERROR ==
  "Did not specify openai_key or openai_key_filepath in request"
NULL_OPENAI_KEY_ERROR == "OpenAI key cannot be null in request"
NULL_OPENAI_KEY_FILEPATH_ERROR == "OpenAI key filepath cannot be null in request"
OPENAI_KEY_FILEPATH_FILE_ERROR == "OpenAI key filepath must be a file in request"

EmptyInitRequest == [openai_key |-> Absent, openai_key_filepath |-> Absent]

(* await fs.promises.stat(path): the error it rejects with, OK otherwise   *)
stat(path) ==
  IF path.t # "str" THEN STAT_TYPE_ERROR
  ELSE IF path.v \in Files \cup Directories THEN OK
  ELSE STAT_ENOENT_ERROR

(* fileStats.isFile() *)
isFile(path) == path.v \in Files

(* _sanitizeInitOpenAIRequest: the message it throws, OK if none.  stat    *)
(* runs before every check.                                                *)
sanitizeInitOpenAIRequest(request) ==
  IF stat(request.openai_key_filepath) # OK
    THEN stat(request.openai_key_filepath)
  ELSE IF In(request.openai_key) /\ In(request.openai_key_filepath)
    THEN TOO_MANY_OPENAI_KEY_ERROR
  ELSE IF ~In(request.openai_key) /\ ~In(request.openai_key_filepath)
    THEN MISSING_OPENAI_KEY_IDENTIFIER_ERROR
  ELSE IF ~In(request.openai_key_filepath) /\ In(request.openai_key)
          /\ Falsy(request.openai_key)
    THEN NULL_OPENAI_KEY_ERROR
  ELSE IF ~In(request.openai_key) /\ In(request.openai_key_filepath)
          /\ Falsy(request.openai_key_filepath)
    THEN NULL_OPENAI_KEY_FILEPATH_ERROR
  ELSE IF ~In(request.openai_key) /\ In(request.openai_key_filepath)
          /\ ~Falsy(request.openai_key_filepath)
          /\ isFile(request.openai_key_filepath)
    THEN OPENAI_KEY_FILEPATH_FILE_ERROR
  ELSE OK

(* { success: true } *)
Success == [t |-> "success", v |-> TRUE]

(* What initOpenAI(request) resolves with. *)
initOpenAIResult(request) ==
  IF sanitizeInitOpenAIRequest(request) = OK
    THEN Resolved(APIResult(Success, Null))
    ELSE Resolved(APIResult(Null,
                            ErrorResponse(sanitizeInitOpenAIRequest(request))))

(* The client after initOpenAI(request); request.openai_key of a request   *)
(* without that key is undefined.                                          *)
clientAfterInitOpenAI(client, request) ==
  IF sanitizeInitOpenAIRequest(request) = OK
    THEN initOpenAI(IF In(request.openai_key)
                      THEN request.openai_key ELSE Undefined)
    ELSE client

InitRequests ==
  [openai_key : {Absent, Str(""), Str("sk-1")},
   openai_key_filepath : {Absent, Str("/openai.key"), Str("/keys")}]

-----------------------------------------------------------------------------
(* State machine.  calls[c] is the call caller c has made, if any.         *)

Callers == {"a"}

(* No error caught / no response received yet. *)
NoError == [name |-> "none", message |-> "", response |-> Absent]
NoResponse == Absent

Idle ==
  [pc |-> "idle", ep |-> "none", req |-> EmptyRequest, arg |-> EmptyRequest,
   thrown |-> OK, http |-> <<>>, delegated |-> <<>>, outcome |-> Pending,
   response |-> NoResponse, caught |-> NoError, via |-> 0]

(* The last initOpenAI call: none yet. *)
NoInit ==
  [req |-> EmptyInitRequest, outcome |-> Pending, before |-> NoOpenAIApiClient]

(* builds[c] is the build-and-insert call caller c has made, if any:       *)
(* effective is the request the composite got, externals the calls it      *)
(* made on OpenAI and on the client, result its own promise and returned   *)
(* the promise the caller holds.                                           *)
IdleBuild ==
  [pc |-> "idle", entry |-> "none", req |-> EmptyBuildRequest,
   effective |-> EmptyBuildRequest, thrown |-> OK, externals |-> <<>>,
   response |-> NoResponse, failure |-> NoError,
   result |-> Pending, returned |-> Pending]

(* The OpenAI integration is not in use. *)
OpenAIUnused ==
  /\ revision = "none"
  /\ openAIApiClient = NoOpenAIApiClient
  /\ inits = NoInit
  /\ builds = [c \in Callers |-> IdleBuild]

(* A client built by initialize(apiKey) with no options. *)
Init ==
  /\ variant \in Variants
  /\ calls = [c \in Callers |-> Idle]
  /\ defaults = "k1"
  /\ clients = [i \in ClientIds |->
                  IF i = 1 THEN initialize("k1", NoOptions) ELSE NoClient]
  /\ OpenAIUnused

(* The call record of endpoint ep of client i called with request.  arg is *)
(* the object the caller passed, req the caller's copy of its content.     *)
Invoke(i, ep, request) ==
  [pc |-> IF Run(variant, ep, request).outcome = Pending
            THEN "awaiting" ELSE "settled",
   ep |-> ep, req |-> request, arg |-> RequestAfterCall(ep, request),
   thrown |-> Run(variant, ep, request).thrown,
   http |-> Sent(clients[i], Run(variant, ep, request).http),
   delegated |-> Run(variant, ep, request).delegated,
   outcome |-> Run(variant, ep, request).outcome,
   response |-> NoResponse,
   caught |-> IF Run(variant, ep, request).thrown # OK
                THEN PlainError(Run(variant, ep, request).thrown)
                ELSE NoError,
   via |-> i]

(* Caller c calls an endpoint of a client with a request object. *)
Call(c) ==
  /\ calls[c].pc = "idle"
  /\ \E i \in ClientIds : \E ep \in Endpoints : \E request \in Requests(ep) :
       /\ clients[i].state = "ready"
       /\ calls' = [calls EXCEPT ![c] = Invoke(i, ep, request)]
  /\ UNCHANGED <<variant, defaults, clients, openAIVars>>

(* The awaited HTTP call of c resolves with a response. *)
TransportSucceeds(c) ==
  /\ calls[c].pc = "awaiting"
  /\ \E b \in ResponseBodies :
       calls' = [calls EXCEPT ![c].pc = "settled",
                              ![c].response = b,
                              ![c].outcome = Returned(b)]
  /\ UNCHANGED <<variant, defaults, clients, openAIVars>>

(* The awaited HTTP call of c rejects; the factory's catch block runs. *)
TransportFails(c) ==
  /\ calls[c].pc = "awaiting"
  /\ \E err \in TransportErrors(variant) :
       calls' = [calls EXCEPT ![c].pc = "settled",
                              ![c].caught = err,
                              ![c].outcome = Caught(variant, Inner(calls[c].ep), err)]
  /\ UNCHANGED <<variant, defaults, clients, openAIVars>>

(* Caller c takes the settled promise; the call's state is discarded. *)
Collect(c) ==
  /\ calls[c].pc = "settled"
  /\ calls' = [calls EXCEPT ![c] = Idle]
  /\ UNCHANGED <<variant, defaults, clients, openAIVars>>

Next ==
  \E c \in Callers :
    \/ Call(c)
    \/ TransportSucceeds(c)
    \/ TransportFails(c)
    \/ Collect(c)

Spec == Init /\ [][Next]_vars

(* Clients being initialized: no client exists at first; initialize is     *)
(* called with any API key and options, and the clients it returns are     *)
(* used for one valid request per endpoint.                                *)
SampleRequests(ep) ==
  CASE ep \in {"insertDocuments", "updateDocuments"} ->
         {[EmptyRequest EXCEPT !.collection_id = Str("c1"),
             !.documents = Arr(<<[id |-> Str("d1"), embedding |-> Arr(<<1>>),
                                  metadata |-> Obj({"car"})]>>)]}
    [] ep = "columnInsert" ->
         {[EmptyRequest EXCEPT !.collection_id = Str("c1"),
             !.embeddings = Arr(<<Arr(<<1>>)>>),
             !.document_metadata = Arr(<<Obj({"car"})>>)]}
    [] ep = "deleteDocuments" ->
         {[EmptyRequest EXCEPT !.collection_id = Str("c1"), !.ids = Arr(<<"d1">>)]}
    [] ep \in {"queryDocuments", "inferSchema", "deleteCollection"} ->
         {[EmptyRequest EXCEPT !.collection_id = Str("c1")]}
    [] ep = "createCollection" ->
         {[EmptyRequest EXCEPT !.name = Str("n1"), !.dimensionality = Num(5)]}
    [] ep = "embed" ->
         {[EmptyRequest EXCEPT !.model = Str("MINI6")]}

ClientInit ==
  /\ variant \in {"axios", "inline"}
  /\ calls = [c \in Callers |-> Idle]
  /\ defaults = NoKey
  /\ clients = [i \in ClientIds |-> NoClient]
  /\ OpenAIUnused

(* initialize(apiKey, options) is called; slot i, the first free one,      *)
(* takes what it returns.                                                  *)
Initialize(i) ==
  /\ clients[i].state = "none"
  /\ \A j \in ClientIds : j < i => clients[j].state # "none"
  /\ \E apiKey \in ApiKeys : \E options \in Options :
       /\ defaults' = apiKey
       /\ clients' = [clients EXCEPT ![i] = initialize(apiKey, options)]
  /\ UNCHANGED <<variant, calls, openAIVars>>

CallSample(c) ==
  /\ calls[c].pc = "idle"
  /\ \E i \in ClientIds : \E ep \in Endpoints : \E request \in SampleRequests(ep) :
       /\ clients[i].state = "ready"
       /\ calls' = [calls EXCEPT ![c] = Invoke(i, ep, request)]
  /\ UNCHANGED <<variant, defaults, clients, openAIVars>>

ClientNext ==
  \/ \E i \in ClientIds : Initialize(i)
  \/ \E c \in Callers :
       \/ CallSample(c)
       \/ TransportSucceeds(c)
       \/ TransportFails(c)
       \/ Collect(c)

ClientSpec == ClientInit /\ [][ClientNext]_vars

-----------------------------------------------------------------------------
(* Concurrent use: two callers have calls in flight at once, through       *)
(* either client, while initialize may be called again.                    *)

ConcurrentCallers == {"a", "b"}

ConcurrentOptions ==
  {NoOptions,
   [NoOptions EXCEPT !.writerHostURL = Host(<<"https://h.example", "/">>)]}

ConcurrentInit ==
  /\ variant \in {"axios", "inline"}
  /\ calls = [c \in ConcurrentCallers |-> Idle]
  /\ defaults = NoKey
  /\ clients = [i \in ClientIds |-> NoClient]
  /\ OpenAIUnused

(* initialize(apiKey, options) is called, possibly while calls of an       *)
(* earlier client are in flight.                                           *)
InitializeAmongCalls(i) ==
  /\ clients[i].state = "none"
  /\ \A j \in ClientIds : j < i => clients[j].state # "none"
  /\ \E apiKey \in ApiKeys : \E options \in ConcurrentOptions :
       /\ defaults' = apiKey
       /\ clients' = [clients EXCEPT ![i] = initialize(apiKey, options)]
  /\ UNCHANGED <<variant, calls, openAIVars>>

ConcurrentNext ==
  \/ \E i \in ClientIds : InitializeAmongCalls(i)
  \/ \E c \in ConcurrentCallers :
       \/ CallSample(c)
       \/ TransportSucceeds(c)
       \/ TransportFails(c)
       \/ Collect(c)

ConcurrentSpec == ConcurrentInit /\ [][ConcurrentNext]_vars

-----------------------------------------------------------------------------
(* The OpenAI integration in use on client 1.                              *)

(* The entry points a revision exports.  buildAndInsertEmbeddingsNoDefault *)
(* is buildAndInsertEmbeddingsFromOpenAIModel in the "builtin" revision.   *)
EntriesOf(rev) ==
  IF rev = "module"
    THEN {"buildAndInsertEmbeddingsNoDefault"}
    ELSE BuildEntries

(* The request an entry point hands to the composite.  The package spreads *)
(* the request over the default model, the builtin the model over the      *)
(* request.                                                                *)
effectiveRequest(rev, entry, request) ==
  IF entry # "buildAndInsertEmbeddings" THEN request
  ELSE IF rev = "package" /\ In(request.model) THEN request
  ELSE withDefaultModel(request)

(* The promise the caller of an entry point holds, given the composite's   *)
(* own promise.  The package's default-model entry point neither awaits    *)
(* nor returns the composite's promise.                                    *)
callerPromise(rev, entry, result) ==
  IF rev = "package" /\ entry = "buildAndInsertEmbeddings"
    THEN Resolved(Undefined)
    ELSE result

OpenAIInit ==
  /\ variant \in Variants
  /\ calls = [c \in Callers |-> Idle]
  /\ defaults = "k1"
  /\ clients = [i \in ClientIds |->
                  IF i = 1 THEN initialize("k1", NoOptions) ELSE NoClient]
  /\ revision \in Revisions
  /\ openAIApiClient \in
       CASE revision = "package" -> {initOpenAI(Str("sk-1"))}
         [] revision = "module" -> {NoOpenAIApiClient, initOpenAI(Str("sk-1"))}
         [] revision = "builtin" -> {NoOpenAIApiClient}
  /\ inits = NoInit
  /\ builds = [c \in Callers |-> IdleBuild]

(* initOpenAI(request) of the "builtin" revision, run to its return. *)
InitOpenAI ==
  /\ revision = "builtin"
  /\ \E request \in InitRequests :
       /\ inits' = [req |-> request, outcome |-> initOpenAIResult(request),
                    before |-> openAIApiClient]
       /\ openAIApiClient' = clientAfterInitOpenAI(openAIApiClient, request)
  /\ UNCHANGED <<variant, calls, defaults, clients, revision, builds>>

(* The build record of entry called with request, run to its first await   *)
(* or its return.                                                          *)
Started(rev, client, entry, request) ==
  LET effective == effectiveRequest(rev, entry, request)
      thrown == buildChecks(client, effective)
      result == IF thrown # OK
                  THEN Resolved(handleError(PlainError(thrown)))
                  ELSE Pending
  IN [pc |-> IF thrown # OK THEN "done" ELSE "embedding",
      entry |-> entry, req |-> request, effective |-> effective,
      thrown |-> thrown,
      externals |-> IF thrown # OK
                      THEN <<>>
                      ELSE <<CreateEmbeddingCall(client, effective)>>,
      response |-> NoResponse,
      failure |-> IF thrown # OK THEN PlainError(thrown) ELSE NoError,
      result |-> result,
      returned |-> callerPromise(rev, entry, result)]

(* Caller c calls an entry point of the integration. *)
Build(c) ==
  /\ builds[c].pc = "idle"
  /\ calls[c].pc = "idle"
  /\ \E entry \in EntriesOf(revision) : \E request \in BuildRequests(entry) :
       builds' = [builds EXCEPT
                    ![c] = Started(revision, openAIApiClient, entry, request)]
  /\ UNCHANGED <<variant, calls, defaults, clients,
                 revision, openAIApiClient, inits>>

(* createEmbedding resolves; with data the composite calls columnInsert of *)
(* client 1, without it returns.                                           *)
EmbeddingResolves(c) ==
  /\ builds[c].pc = "embedding"
  /\ \E response \in EmbeddingResponses :
       IF afterEmbedding(response).insert
         THEN /\ builds' = [builds EXCEPT
                   ![c].pc = "inserting",
                   ![c].response = response,
                   ![c].externals = @ \o
                     <<ColumnInsertCall(
                         columnInsertRequest(revision, builds[c].effective,
                                             response.v.v))>>]
              /\ calls' = [calls EXCEPT
                   ![c] = Invoke(1, "columnInsert",
                                 columnInsertRequest(revision,
                                                     builds[c].effective,
                                                     response.v.v))]
         ELSE /\ builds' = [builds EXCEPT
                   ![c].pc = "done",
                   ![c].response = response,
                   ![c].failure = IF response.t = "undefined"
                                    THEN PlainError(TYPE_ERROR_DATA)
                                    ELSE NoError,
                   ![c].result = afterEmbedding(response).outcome,
                   ![c].returned =
                     callerPromise(revision, builds[c].entry,
                                   afterEmbedding(response).outcome)]
              /\ UNCHANGED calls
  /\ UNCHANGED <<variant, defaults, clients, revision, openAIApiClient, inits>>

(* createEmbedding rejects; the composite's catch block runs. *)
EmbeddingRejects(c) ==
  /\ builds[c].pc = "embedding"
  /\ \E err \in EmbeddingErrors :
       builds' = [builds EXCEPT
                    ![c].pc = "done",
                    ![c].failure = err,
                    ![c].result = Resolved(handleError(err)),
                    ![c].returned =
                      callerPromise(revision, builds[c].entry,
                                    Resolved(handleError(err)))]
  /\ UNCHANGED <<variant, calls, defaults, clients,
                 revision, openAIApiClient, inits>>

(* The promise of columnInsert settled; the composite resumes. *)
InsertSettles(c) ==
  /\ builds[c].pc = "inserting"
  /\ calls[c].pc = "settled"
  /\ builds' = [builds EXCEPT
       ![c].pc = "done",
       ![c].result = afterColumnInsert(builds[c].response, calls[c].outcome),
       ![c].returned =
         callerPromise(revision, builds[c].entry,
                       afterColumnInsert(builds[c].response, calls[c].outcome))]
  /\ UNCHANGED <<variant, calls, defaults, clients,
                 revision, openAIApiClient, inits>>

(* The composite is done and its state is discarded. *)
BuildCollect(c) ==
  /\ builds[c].pc = "done"
  /\ builds' = [builds EXCEPT ![c] = IdleBuild]
  /\ calls' = [calls EXCEPT ![c] = Idle]
  /\ UNCHANGED <<variant, defaults, clients, revision, openAIApiClient, inits>>

OpenAINext ==
  \/ InitOpenAI
  \/ \E c \in Callers :
       \/ Build(c)
       \/ EmbeddingResolves(c)
       \/ EmbeddingRejects(c)
       \/ TransportSucceeds(c)
       \/ TransportFails(c)
       \/ InsertSettles(c)
       \/ BuildCollect(c)

OpenAISpec == OpenAIInit /\ [][OpenAINext]_vars

-----------------------------------------------------------------------------
(* Properties.                                                             *)

Active(c) == calls[c].pc # "idle"
Settled(c) == calls[c].pc = "settled"

(* The value is an APIResult object *)
IsResult(value) == value.t = "result"

(* C1: a call whose request fails a client-side check has issued no HTTP   *)
(* request and has resolved to {data: null, error: {error_message: m}},    *)
(* m being the message of the failed check.                                *)
C1_InvalidRequestNoNetworkErrorResult ==
  \A c \in DOMAIN calls :
    Active(c) /\ calls[c].thrown # OK =>
      /\ Len(calls[c].http) = 0
      /\ calls[c].outcome = Resolved(APIResult(Null, ErrorResponse(calls[c].thrown)))

(* C2: every settled call has resolved, never rejected, and resolved to an *)
(* APIResult object, never to undefined.                                   *)
C2_AlwaysResolvesToResult ==
  \A c \in DOMAIN calls :
    Settled(c) =>
      /\ calls[c].outcome.state = "resolved"
      /\ IsResult(calls[c].outcome.value)

(* C3: the result of every settled call has exactly one of data / error    *)
(* non-null.                                                               *)
C3_ExactlyOneOfDataError ==
  \A c \in DOMAIN calls :
    Settled(c) =>
      /\ calls[c].outcome.state = "resolved"
      /\ IsResult(calls[c].outcome.value)
      /\ IsNullish(calls[c].outcome.value.v.data)
           # IsNullish(calls[c].outcome.value.v.error)


(* The endpoints whose request type wraps a collection reference. *)
CollectionEndpoints ==
  {"insertDocuments", "columnInsert", "updateDocuments", "deleteDocuments",
   "queryDocuments", "inferSchema"}

NoIdentifier(request) ==
  ~In(request.collection_id) /\ ~In(request.collection_name)

BothIdentifiers(request) ==
  In(request.collection_id) /\ In(request.collection_name)

ErrorResult(message) == Resolved(APIResult(Null, ErrorResponse(message)))

C5_TooManyIdentifiers ==
  \A c \in DOMAIN calls :
    Active(c) /\ BothIdentifiers(calls[c].req) =>
      /\ Len(calls[c].http) = 0
      /\ calls[c].outcome = ErrorResult(
           "Request has too many identifiers. Either pass in collection_id or collection_name, not both")


C7_ExactlyOneNonEmptyIdentifier ==
  \A c \in DOMAIN calls :
    Active(c) /\ calls[c].ep \in CollectionEndpoints =>
      /\ \A i \in 1..Len(calls[c].http) :
           LET b == calls[c].http[i].body
           IN /\ In(b.collection_id) # In(b.collection_name)
              /\ In(b.collection_id) =>
                   b.collection_id.t = "str" /\ b.collection_id.v # ""
              /\ In(b.collection_name) =>
                   b.collection_name.t = "str" /\ b.collection_name.v # ""
      /\ /\ ~In(calls[c].req.collection_name)
         /\ calls[c].req.collection_id \in {Null, Str("")}
         => /\ calls[c].thrown = NULL_COLLECTION_ID_ERROR
            /\ Len(calls[c].http) = 0
      /\ /\ ~In(calls[c].req.collection_id)
         /\ calls[c].req.collection_name \in {Null, Str("")}
         => /\ calls[c].thrown = NULL_COLLECTION_NAME_ERROR
            /\ Len(calls[c].http) = 0

C7_Witness ==
  \E c \in DOMAIN calls :
    /\ calls[c].ep = "updateDocuments"
    /\ calls[c].req.collection_id = Str("")
    /\ ~In(calls[c].req.collection_name)
    /\ calls[c].thrown = NULL_COLLECTION_ID_ERROR
    /\ Settled(c)

(* The document has no non-empty embedding: absent, null or an empty list  *)
LacksEmbedding(document) ==
  \/ document.embedding.t \in {"absent", "undefined", "null"}
  \/ document.embedding.t = "arr" /\ Len(document.embedding.v) = 0

(* C8: insertDocuments with a valid collection reference fails, without an *)
(* HTTP request, with the missing-documents message when documents is      *)
(* absent or empty and with the missing-embedding message when a document  *)
(* has no non-empty embedding; no such document reaches the network.       *)
C8_InsertDocumentsValidation ==
  \A c \in DOMAIN calls :
    /\ Active(c) /\ calls[c].ep = "insertDocuments"
    /\ sanitizeCollectionIdentifiersInRequest(calls[c].req) = OK
    => /\ \/ calls[c].req.documents.t \in {"absent", "undefined", "null"}
          \/ calls[c].req.documents = Arr(<<>>)
          => /\ Len(calls[c].http) = 0
             /\ calls[c].outcome = ErrorResult(MISSING_DOCUMENT_IN_REQUEST_ERROR)
       /\ /\ calls[c].req.documents.t = "arr"
          /\ \E i \in 1..Len(calls[c].req.documents.v) :
               LacksEmbedding(calls[c].req.documents.v[i])
          => /\ Len(calls[c].http) = 0
             /\ calls[c].outcome = ErrorResult(MISSING_EMBEDDING_IN_DOCUMENT_ERROR)
       /\ \A h \in 1..Len(calls[c].http) :
            \A i \in 1..Len(calls[c].http[h].body.documents.v) :
              ~LacksEmbedding(calls[c].http[h].body.documents.v[i])

(* The document has no non-empty metadata: absent, null or an empty mapping *)
LacksMetadata(document) ==
  \/ document.metadata.t \in {"absent", "undefined", "null"}
  \/ document.metadata.t = "obj" /\ document.metadata.v = {}

LacksId(document) == document.id.t \in {"absent", "undefined", "null"}

(* C9: updateDocuments with a valid collection reference and a non-empty   *)
(* documents list fails, without an HTTP request, with the missing-id      *)
(* message when a document has no id, and otherwise with the               *)
(* missing-metadata message when a document has no non-empty metadata.     *)
C9_UpdateDocumentsValidation ==
  \A c \in DOMAIN calls :
    /\ Active(c) /\ calls[c].ep = "updateDocuments"
    /\ sanitizeCollectionIdentifiersInRequest(calls[c].req) = OK
    /\ calls[c].req.documents.t = "arr"
    /\ Len(calls[c].req.documents.v) > 0
    => LET ds == calls[c].req.documents.v
           noId == \E i \in 1..Len(ds) : LacksId(ds[i])
           noMetadata == \E i \in 1..Len(ds) : LacksMetadata(ds[i])
       IN /\ noId =>
               /\ Len(calls[c].http) = 0
               /\ calls[c].outcome = ErrorResult(MISSING_DOCUMENT_ID_IN_REQUEST_ERROR)
          /\ ~noId /\ noMetadata =>
               /\ Len(calls[c].http) = 0
               /\ calls[c].outcome = ErrorResult(MISSING_DOCUMENT_METADATA_IN_REQUEST_ERROR)

(* C10: deleteDocuments with a valid collection reference and ids absent   *)
(* or an empty list issues no HTTP request and resolves to the             *)
(* missing-document-ids error.                                             *)
C10_DeleteDocumentsNeedsIds ==
  \A c \in DOMAIN calls :
    /\ Active(c) /\ calls[c].ep = "deleteDocuments"
    /\ sanitizeCollectionIdentifiersInRequest(calls[c].req) = OK
    /\ \/ calls[c].req.ids.t \in {"absent", "undefined", "null"}
       \/ calls[c].req.ids = Arr(<<>>)
    => /\ Len(calls[c].http) = 0
       /\ calls[c].thrown = MISSING_DOCUMENT_IDS_IN_DELETE_REQUEST_ERROR
       /\ calls[c].outcome = ErrorResult(MISSING_DOCUMENT_IDS_IN_DELETE_REQUEST_ERROR)

C10_Witness ==
  \E c \in DOMAIN calls :
    /\ calls[c].ep = "deleteDocuments"
    /\ calls[c].req.collection_id = Str("c1")
    /\ ~In(calls[c].req.collection_name)
    /\ calls[c].req.ids = Arr(<<>>)
    /\ Settled(c)
    /\ Len(calls[c].http) = 0

(* C11: createCollection with a name and a dimensionality that is 0 or     *)
(* negative issues no HTTP request and resolves to the                     *)
(* dimensionality-lte-zero error; with a name and a null or undefined      *)
(* dimensionality it resolves to the missing-dimensionality error.         *)
C11_CreateCollectionDimensionality ==
  \A c \in DOMAIN calls :
    /\ Active(c) /\ calls[c].ep = "createCollection"
    /\ calls[c].req.name.t = "str" /\ calls[c].req.name.v # ""
    => LET d == calls[c].req.dimensionality
       IN /\ d.t = "num" /\ d.v <= 0 =>
               /\ Len(calls[c].http) = 0
               /\ calls[c].outcome =
                    ErrorResult(CREATE_COLLECTION_DIMENSIONALITY_LTE_ZERO_ERROR)
          /\ d.t \in {"absent", "undefined", "null"} =>
               /\ Len(calls[c].http) = 0
               /\ calls[c].outcome =
                    ErrorResult(CREATE_COLLECTION_MISSING_DIMENSIONALITY_ERROR)

C11_Witness ==
  \E c \in DOMAIN calls :
    /\ calls[c].ep = "createCollection"
    /\ calls[c].req.name = Str("n1")
    /\ calls[c].req.dimensionality = Num(0)
    /\ Settled(c)
    /\ calls[c].outcome = ErrorResult(CREATE_COLLECTION_DIMENSIONALITY_LTE_ZERO_ERROR)

(* C12: columnInsert with a valid collection reference whose embeddings    *)
(* list or document_metadata list is empty issues no HTTP request and      *)
(* resolves to the missing-documents error.                                *)
C12_ColumnInsertEmptyTranspose ==
  \A c \in DOMAIN calls :
    /\ Active(c) /\ calls[c].ep = "columnInsert"
    /\ sanitizeCollectionIdentifiersInRequest(calls[c].req) = OK
    /\ calls[c].req.embeddings.t = "arr"
    /\ calls[c].req.document_metadata.t = "arr"
    /\ \/ Len(calls[c].req.embeddings.v) = 0
       \/ Len(calls[c].req.document_metadata.v) = 0
    => /\ Len(calls[c].http) = 0
       /\ calls[c].outcome = ErrorResult(MISSING_DOCUMENT_IN_REQUEST_ERROR)

(* C13: on every endpoint, a call whose request passed the checks and      *)
(* whose HTTP call succeeded with response body b has resolved to          *)
(* {data: b, error: null}.                                                 *)
C13_SuccessReturnsBody ==
  \A c \in DOMAIN calls :
    Settled(c) /\ calls[c].thrown = OK /\ calls[c].response # NoResponse =>
      calls[c].outcome = Resolved(APIResult(calls[c].response, Null))

C13_Witness ==
  \E c \in DOMAIN calls :
    /\ calls[c].ep = "createCollection"
    /\ calls[c].req.name = Str("n1")
    /\ calls[c].req.dimensionality = Num(5)
    /\ calls[c].response = Body("response")
    /\ Settled(c)
    /\ calls[c].outcome = Resolved(APIResult(Body("response"), Null))

(* C14: on every endpoint other than columnInsert the body of each HTTP    *)
(* request issued is the caller's request, field for field; and after a    *)
(* call to any endpoint the caller's request object is as it was passed.   *)
C14_BodyIsRequestNoMutation ==
  \A c \in DOMAIN calls :
    Active(c) =>
      /\ calls[c].arg = calls[c].req
      /\ calls[c].ep # "columnInsert" =>
           \A i \in 1..Len(calls[c].http) : calls[c].http[i].body = calls[c].req

C14_Witness ==
  \E c \in DOMAIN calls :
    /\ calls[c].ep = "deleteDocuments"
    /\ calls[c].req.collection_id = Str("c1")
    /\ calls[c].req.ids = Arr(<<"d1", "d2">>)
    /\ Len(calls[c].http) = 1
    /\ calls[c].http[1].body = calls[c].req
    /\ calls[c].arg = calls[c].req
    /\ Settled(c)

(* The binding table: method, path and service of each endpoint. *)
BindingTable ==
  [insertDocuments  |-> <<"POST", "/api/v1/documents", "writer">>,
   columnInsert     |-> <<"POST", "/api/v1/documents", "writer">>,
   updateDocuments  |-> <<"PATCH", "/api/v1/documents", "writer">>,
   deleteDocuments  |-> <<"DELETE", "/api/v1/documents", "writer">>,
   createCollection |-> <<"POST", "/api/v1/collections", "writer">>,
   deleteCollection |-> <<"DELETE", "/api/v1/collections", "writer">>,
   queryDocuments   |-> <<"POST", "/api/v1/query", "reader">>,
   inferSchema      |-> <<"POST", "/api/v1/infer_schema", "reader">>,
   embed            |-> <<"POST", "/api/v1/embed", "embedding">>]

(* C15: every HTTP request a call issues has the method, path and service  *)
(* the binding table gives for its endpoint; a call whose request passed   *)
(* every check has issued one; and deleteDocuments / deleteCollection      *)
(* carry the request as body.                                              *)
C15_MethodPathBindings ==
  \A c \in DOMAIN calls :
    Active(c) =>
      /\ calls[c].thrown = OK => Len(calls[c].http) = 1
      /\ \A i \in 1..Len(calls[c].http) :
           /\ <<calls[c].http[i].method, calls[c].http[i].path,
                calls[c].http[i].client>> = BindingTable[calls[c].ep]
           /\ calls[c].ep \in {"deleteDocuments", "deleteCollection"} =>
                calls[c].http[i].body = calls[c].req

C15_Witness ==
  \E c \in DOMAIN calls :
    /\ calls[c].ep = "deleteDocuments"
    /\ calls[c].pc = "awaiting"
    /\ Len(calls[c].http) = 1
    /\ calls[c].http[1].method = "DELETE"
    /\ calls[c].http[1].path = "/api/v1/documents"
    /\ calls[c].http[1].client = "writer"

(* C16: a settled call that caught an error carrying a structured response *)
(* body b has resolved to {data: null, error: b}; a settled call that      *)
(* caught any other error e has resolved to                                *)
(* {data: null, error: {error_message: e.message}}.                        *)
C16_ErrorNormalization ==
  \A c \in DOMAIN calls :
    Settled(c) /\ calls[c].caught # NoError =>
      IF calls[c].caught.response.t = "body"
        THEN calls[c].outcome = Resolved(APIResult(Null, calls[c].caught.response))
        ELSE calls[c].outcome = ErrorResult(calls[c].caught.message)

(* C17: handleError is total: whatever error a call's catch block hands    *)
(* to handleError (axios or ky), the call resolves to a result object with *)
(* data null; handleError neither throws nor rejects.                      *)
C17_NormalizerTotal ==
  \A c \in DOMAIN calls :
    Settled(c) /\ calls[c].caught # NoError /\ variant \in {"axios", "ky"} =>
      /\ calls[c].outcome.state = "resolved"
      /\ IsResult(calls[c].outcome.value)
      /\ calls[c].outcome.value.v.data = Null

(* The host option is supplied and is not a valid host: the empty string,  *)
(* or a string that is not a URL.                                          *)
InvalidHost(hostURL) ==
  hostURL.t = "host" /\ (hostURL.v = <<>> \/ ~isURL(hostURL.v))

(* The host option with one trailing slash removed. *)
Stripped(hostURL) ==
  IF hostURL.v[Len(hostURL.v)] = "/"
    THEN SubSeq(hostURL.v, 1, Len(hostURL.v) - 1) ELSE hostURL.v

(* C18: an initialize call given an invalid writerHostURL, readerHostURL   *)
(* or embeddingHostURL (empty, or not a URL) has thrown and returned no    *)
(* client; otherwise it has returned a client whose base URLs are the      *)
(* supplied hosts with the trailing slash stripped, and the fixed default  *)
(* where the host was omitted.                                             *)
C18_InitializeValidatesHosts ==
  \A i \in ClientIds :
    clients[i].state # "none" =>
      LET o == clients[i].options
      IN IF \/ InvalidHost(o.writerHostURL)
            \/ InvalidHost(o.readerHostURL)
            \/ InvalidHost(o.embeddingHostURL)
           THEN clients[i].state = "threw" /\ clients[i].thrown # OK
           ELSE /\ clients[i].state = "ready"
                /\ clients[i].writer.baseURL =
                     IF o.writerHostURL.t = "absent"
                       THEN WRITER_URL ELSE Stripped(o.writerHostURL)
                /\ clients[i].reader.baseURL =
                     IF o.readerHostURL.t = "absent"
                       THEN READER_URL ELSE Stripped(o.readerHostURL)
                /\ clients[i].embedding.baseURL =
                     IF o.embeddingHostURL.t = "absent"
                       THEN EMBEDDING_URL ELSE Stripped(o.embeddingHostURL)

C20_ExactlyOneRequestNoRetry ==
  \A c \in DOMAIN calls :
    Active(c) =>
      /\ Len(calls[c].http) <= 1
      /\ calls[c].thrown = OK => Len(calls[c].http) = 1
      /\ calls[c].thrown = OK /\ calls[c].caught # NoError =>
           /\ Settled(c)
           /\ Len(calls[c].http) = 1
           /\ calls[c].outcome.state = "resolved"
           /\ IsResult(calls[c].outcome.value)
           /\ calls[c].outcome.value.v.data = Null

-----------------------------------------------------------------------------
(* Properties of the OpenAI integration.                                   *)

(* The composite called columnInsert: its second external call. *)
InsertInvoked(c) == Len(builds[c].externals) = 2

(* The items of the embedding response the composite of c received *)
ReceivedItems(c) == builds[c].response.v.v

(* The embeddings the composite of c passed to columnInsert *)
PassedEmbeddings(c) == builds[c].externals[2].request.embeddings.v

(* C21: the embeddings passed to columnInsert are the embeddings the       *)
(* embedding service returned, one per returned item, ordered by ascending *)
(* reported index, whatever the order of the response.                     *)
C21_EmbeddingsSortedByIndex ==
  \A c \in Callers :
    InsertInvoked(c) =>
      /\ Len(PassedEmbeddings(c)) = Len(ReceivedItems(c))
      /\ \A k \in 1..Len(PassedEmbeddings(c)) :
           \E i \in 1..Len(ReceivedItems(c)) :
             /\ ReceivedItems(c)[i].embedding = PassedEmbeddings(c)[k]
             /\ Cardinality({j \in 1..Len(ReceivedItems(c)) :
                   ReceivedItems(c)[j].index < ReceivedItems(c)[i].index}) = k - 1

(* columnInsert was called after a response whose items were out of order *)
C21_Witness ==
  \E c \in Callers :
    /\ InsertInvoked(c)
    /\ Len(ReceivedItems(c)) = 2
    /\ ReceivedItems(c)[1].index > ReceivedItems(c)[2].index

(* The request the composite of c passed to columnInsert *)
PassedRequest(c) == builds[c].externals[2].request

(* One { input: item } entry per input item, in input order *)
InputEntries(inputData) ==
  IF inputData.t = "str"
    THEN <<InputMetadata(inputData.v)>>
    ELSE [k \in 1..Len(inputData.v) |-> InputMetadata(inputData.v[k])]

(* C22: when the caller's document_metadata is absent or null, the         *)
(* document_metadata passed to columnInsert has one entry {input: item}    *)
(* per input item in input order; a supplied document_metadata is passed   *)
(* through unchanged.                                                      *)
C22_MetadataBackfill ==
  \A c \in Callers :
    InsertInvoked(c) =>
      IF IsNullish(builds[c].req.document_metadata)
        THEN PassedRequest(c).document_metadata
               = Arr(InputEntries(builds[c].req.input_data))
        ELSE PassedRequest(c).document_metadata
               = builds[c].req.document_metadata

BuildDone(c) == builds[c].pc = "done"

(* The embedding call of c failed: it rejected or gave no response. *)
EmbeddingFailed(c) ==
  /\ builds[c].thrown = OK
  /\ builds[c].failure # NoError

(* columnInsert, called by the composite of c, did not return a result     *)
(* without error.                                                          *)
InsertFailed(c) ==
  /\ InsertInvoked(c)
  /\ calls[c].pc = "settled"
  /\ \/ calls[c].outcome.state = "rejected"
     \/ ~IsResult(calls[c].outcome.value)
     \/ /\ IsResult(calls[c].outcome.value)
        /\ calls[c].outcome.value.v.error.t # "null"

(* The promise resolved with an APIResult whose error is not null. *)
CarriesError(promise) ==
  /\ promise.state = "resolved"
  /\ IsResult(promise.value)
  /\ ~IsNullish(promise.value.v.error)

(* C23: any failure of the composite is surfaced in its result: when the   *)
(* embedding call fails or the columnInsert step returns an error result,  *)
(* the composite's result carries a non-null error.                        *)
C23_CompositeFailureSurfaced ==
  \A c \in Callers :
    BuildDone(c) /\ (EmbeddingFailed(c) \/ InsertFailed(c))
      => CarriesError(builds[c].result)

(* The embedding response of c carried embedding data. *)
ReceivedData(c) ==
  /\ builds[c].response.t = "openai_response"
  /\ builds[c].response.v.t = "arr"

(* C24: when the promise buildAndInsertEmbeddings returned is resolved,    *)
(* the embedding call has completed and, if it returned embedding data,    *)
(* columnInsert has been invoked, however long the embedding call takes.   *)
C24_ResolvedAfterEmbeddingAndInsert ==
  \A c \in Callers :
    /\ builds[c].entry = "buildAndInsertEmbeddings"
    /\ builds[c].thrown = OK
    /\ builds[c].returned.state = "resolved"
    => /\ builds[c].pc # "embedding"
       /\ ReceivedData(c) => InsertInvoked(c)

(* C25: columnInsert is invoked only after the embedding call returned a   *)
(* response with non-null embedding data; when the embedding call fails,   *)
(* yields no response or returns null data, columnInsert is not invoked,   *)
(* and a request with an invalid collection identifier triggers neither    *)
(* the embedding call nor columnInsert.                                    *)
C25_InsertOnlyAfterEmbeddingData ==
  \A c \in Callers :
    /\ InsertInvoked(c) =>
         /\ ReceivedData(c)
         /\ builds[c].externals[1].kind = "createEmbedding"
         /\ builds[c].externals[2].kind = "columnInsert"
    /\ builds[c].pc # "idle" /\ ~ReceivedData(c) =>
         /\ Len(builds[c].externals) <= 1
         /\ calls[c].pc = "idle"
    /\ builds[c].pc # "idle"
         /\ sanitizeCollectionIdentifiersInRequest(builds[c].req) # OK =>
         /\ builds[c].externals = <<>>
         /\ calls[c].pc = "idle"
         /\ BuildDone(c)

(* The embedding call answered with null data and the composite returned   *)
(* without calling columnInsert.                                           *)
C25_Witness ==
  \E c \in Callers :
    /\ BuildDone(c)
    /\ builds[c].response.t = "openai_response"
    /\ builds[c].response.v.t = "null"
    /\ Len(builds[c].externals) = 1

(* The client initialize returns for the configuration of the client the   *)
(* call of c was issued through.                                           *)
OwnClient(c) ==
  initialize(clients[calls[c].via].apiKey, clients[calls[c].via].options)

(* The promise of the call of c, from its own request and its own          *)
(* transport response or error.                                            *)
OwnOutcome(c) ==
  IF calls[c].pc = "awaiting" THEN Pending
  ELSE IF calls[c].response.t # "absent" THEN Returned(calls[c].response)
  ELSE IF calls[c].thrown # OK
    THEN Run(variant, calls[c].ep, calls[c].req).outcome
  ELSE Caught(variant, Inner(calls[c].ep), calls[c].caught)

(* What a call in flight is: a function of its own request, response and   *)
(* client configuration.                                                   *)
IndependentState ==
  \A c \in DOMAIN calls :
    Active(c) =>
      /\ clients[calls[c].via].state = "ready"
      /\ Len(calls[c].http) = Len(Run(variant, calls[c].ep, calls[c].req).http)
      /\ \A k \in 1..Len(calls[c].http) :
           /\ calls[c].http[k].headers = clients[calls[c].via].apiKey
           /\ calls[c].http[k].baseURL
                = OwnClient(c)[calls[c].http[k].client].baseURL
           /\ calls[c].http[k].method
                = Run(variant, calls[c].ep, calls[c].req).http[k].method
           /\ calls[c].http[k].path
                = Run(variant, calls[c].ep, calls[c].req).http[k].path
           /\ calls[c].http[k].body
                = Run(variant, calls[c].ep, calls[c].req).http[k].body
      /\ calls[c].outcome = OwnOutcome(c)

(* What a step does: an existing client is never changed, a step of one    *)
(* call leaves every other call alone, and initialize leaves every call    *)
(* alone.                                                                  *)
IndependentStep ==
  /\ \A i \in ClientIds : clients[i].state # "none" => clients'[i] = clients[i]
  /\ \A c, d \in DOMAIN calls :
       c # d /\ calls'[c] # calls[c] => calls'[d] = calls[d]
  /\ clients' # clients => calls' = calls

(* C26: calls are independent under every interleaving: the outcome of a   *)
(* call and the API key and base URL it is sent with depend only on its    *)
(* own request, its own transport response and the configuration of the    *)
(* client it was issued through, not on other concurrent calls and not on  *)
(* other initialize invocations.                                           *)
C26_CallsIndependent == []IndependentState /\ [][IndependentStep]_vars

(* Two calls in flight at once through two clients with different keys and *)
(* different writer hosts, the first issued before the second client       *)
(* existed and settled after it.                                           *)
C26_Witness ==
  /\ clients[1].state = "ready" /\ clients[2].state = "ready"
  /\ clients[1].apiKey # clients[2].apiKey
  /\ clients[1].writer.baseURL # clients[2].writer.baseURL
  /\ calls["a"].via = 1 /\ calls["a"].pc = "settled"
  /\ calls["a"].ep = "insertDocuments" /\ Len(calls["a"].http) = 1
  /\ calls["b"].via = 2 /\ calls["b"].pc = "awaiting"
  /\ calls["b"].ep = "insertDocuments"

(* The model of the request is one of the supported identifiers. *)
SupportedModel(request) ==
  /\ request.model.t = "str"
  /\ request.model.v \in {"MINI6", "MINI12"}

(* C27: embed with a model outside the supported identifiers (MINI6,       *)
(* MINI12) issues no HTTP request and resolves to an error result          *)
(* {data: null, error: {error_message}}; with a supported model it issues  *)
(* exactly one POST to the embed path.                                     *)
C27_EmbedModelValidated ==
  \A c \in Callers :
    Active(c) /\ calls[c].ep = "embed" =>
      IF SupportedModel(calls[c].req)
        THEN /\ Len(calls[c].http) = 1
             /\ calls[c].http[1].method = "POST"
             /\ calls[c].http[1].path = EMBED_PATH
        ELSE /\ calls[c].http = <<>>
             /\ Settled(c)
             /\ calls[c].outcome.state = "resolved"
             /\ IsResult(calls[c].outcome.value)
             /\ calls[c].outcome.value.v.data.t = "null"
             /\ calls[c].outcome.value.v.error.t = "error_response"

(* embed was called with a model that is a string but not a supported one  *)
C27_Witness ==
  \E c \in Callers :
    /\ Settled(c) /\ calls[c].ep = "embed"
    /\ calls[c].req.model.t = "str"
    /\ ~SupportedModel(calls[c].req)
    /\ calls[c].http = <<>>

(* C28: buildAndInsertEmbeddings(req) is equivalent to                     *)
(* buildAndInsertEmbeddingsNoDefault({model: "text-embedding-ada-002",     *)
(* ...req}): the composite runs on that request, its external calls are    *)
(* the calls of the entry point, and the caller's promise resolves to the  *)
(* composite's APIResult, which holds the openai response and the          *)
(* starpoint response when the embedding call yields data.                 *)
C28_DefaultModelEquivalence ==
  \A c \in Callers :
    builds[c].entry = "buildAndInsertEmbeddings" =>
      /\ builds[c].effective
           = [builds[c].req EXCEPT !.model = Str("text-embedding-ada-002")]
      /\ builds[c].externals # <<>> =>
           builds[c].externals[1].model = Str("text-embedding-ada-002")
      /\ builds[c].returned = builds[c].result
      /\ BuildDone(c) /\ ReceivedData(c) /\ ~InsertFailed(c) =>
           /\ builds[c].returned.state = "resolved"
           /\ IsResult(builds[c].returned.value)
           /\ builds[c].returned.value.v.data.t = "build_response"

(* The first failing identifier rule: too many, missing, null name, null   *)
(* id; OK when the collection reference is valid.                          *)
FirstIdentifierFailure(request) ==
  IF BothIdentifiers(request) THEN MULTIPLE_COLLECTION_IDENTIFIER_ERROR
  ELSE IF NoIdentifier(request) THEN MISSING_COLLECTION_IDENTIFIER_ERROR
  ELSE IF In(request.collection_name) /\ Falsy(request.collection_name)
    THEN NULL_COLLECTION_NAME_ERROR
  ELSE IF In(request.collection_id) /\ Falsy(request.collection_id)
    THEN NULL_COLLECTION_ID_ERROR
  ELSE OK

(* documents is absent, null or empty *)
NoDocuments(request) ==
  \/ IsNullish(request.documents)
  \/ request.documents.t = "arr" /\ Len(request.documents.v) = 0

(* The first failing rule of an endpoint in the fixed order. *)
FirstFailure(ep, request) ==
  CASE ep = "insertDocuments" ->
         IF FirstIdentifierFailure(request) # OK
           THEN FirstIdentifierFailure(request)
         ELSE IF NoDocuments(request) THEN MISSING_DOCUMENT_IN_REQUEST_ERROR
         ELSE IF \E i \in 1..Len(request.documents.v) :
                   LacksEmbedding(request.documents.v[i])
           THEN MISSING_EMBEDDING_IN_DOCUMENT_ERROR
         ELSE OK
    [] ep = "updateDocuments" ->
         IF FirstIdentifierFailure(request) # OK
           THEN FirstIdentifierFailure(request)
         ELSE IF NoDocuments(request) THEN MISSING_DOCUMENT_IN_REQUEST_ERROR
         ELSE IF \E i \in 1..Len(request.documents.v) :
                   LacksId(request.documents.v[i])
           THEN MISSING_DOCUMENT_ID_IN_REQUEST_ERROR
         ELSE IF \E i \in 1..Len(request.documents.v) :
                   LacksMetadata(request.documents.v[i])
           THEN MISSING_DOCUMENT_METADATA_IN_REQUEST_ERROR
         ELSE OK
    [] ep = "createCollection" ->
         IF Falsy(request.name) THEN CREATE_COLLECTION_MISSING_NAME_ERROR
         ELSE IF IsNullish(request.dimensionality)
           THEN CREATE_COLLECTION_MISSING_DIMENSIONALITY_ERROR
         ELSE IF request.dimensionality.v <= 0
           THEN CREATE_COLLECTION_DIMENSIONALITY_LTE_ZERO_ERROR
         ELSE OK

(* C29: validation is deterministic and ordered: the error a call reports  *)
(* is that of the first failing check in the fixed order: identifier       *)
(* checks (too many, missing, null name, null id) before any document      *)
(* check; then documents absent or empty, then missing id, then missing    *)
(* metadata for updateDocuments (documents, then missing embedding for     *)
(* insertDocuments); for createCollection missing name, then missing       *)
(* dimensionality, then dimensionality <= 0.                               *)
C29_ValidationOrdered ==
  \A c \in Callers :
    /\ Active(c) /\ calls[c].ep \in CollectionEndpoints
         /\ FirstIdentifierFailure(calls[c].req) # OK =>
         calls[c].thrown = FirstIdentifierFailure(calls[c].req)
    /\ Active(c)
         /\ calls[c].ep \in {"insertDocuments", "updateDocuments", "createCollection"} =>
         calls[c].thrown = FirstFailure(calls[c].ep, calls[c].req)

(* No initOpenAI call has succeeded. *)
Uninitialized == openAIApiClient.state = "null"

(* The last initOpenAI call held only a non-empty openai_key. *)
OnlyNonEmptyKey(request) ==
  /\ request.openai_key.t = "str" /\ request.openai_key.v # ""
  /\ ~In(request.openai_key_filepath)

InitCalled == inits.outcome.state = "resolved"

InitSucceeded ==
  /\ InitCalled
  /\ inits.outcome.value.v.error.t = "null"

(* Before a successful initOpenAI every build-and-insert call returns the  *)
(* initialization error without any external call.                         *)
UninitializedRefuses ==
  Uninitialized =>
    \A c \in Callers :
      builds[c].pc # "idle" =>
        /\ builds[c].result = ErrorResult(OPENAI_INSTANCE_INIT_ERROR)
        /\ builds[c].returned = ErrorResult(OPENAI_INSTANCE_INIT_ERROR)
        /\ builds[c].externals = <<>>
        /\ calls[c].pc = "idle"

(* initOpenAI with only a non-empty key succeeds. *)
KeyOnlyInitSucceeds ==
  InitCalled /\ OnlyNonEmptyKey(inits.req) =>
    /\ inits.outcome = Resolved(APIResult(Success, Null))
    /\ ~Uninitialized

(* A failed initOpenAI leaves the OpenAI client as it was. *)
FailedInitChangesNothing ==
  InitCalled /\ ~InitSucceeded => openAIApiClient = inits.before

(* Once initialized, the client stays initialized and every call made      *)
(* from then on passes the initialization check.                           *)
InitializedForGood ==
  ~Uninitialized =>
    /\ openAIApiClient'.state = "ready"
    /\ \A c \in Callers :
         builds[c].pc = "idle" /\ builds'[c].pc # "idle" =>
           builds'[c].thrown # OPENAI_INSTANCE_INIT_ERROR

(* C30: in the client with a built-in OpenAI step, before any successful   *)
(* initOpenAI the build-and-insert entry points return the "OpenAI         *)
(* instance has not been initialized" error and make no embedding or       *)
(* network call; initOpenAI with only a non-empty openai_key returns       *)
(* {data: {success: true}, error: null} and every later build-and-insert   *)
(* call passes the initialization check; a failed initOpenAI leaves the    *)
(* state unchanged.                                                        *)
C30_OpenAIInitProtocol ==
  /\ [](revision = "builtin" =>
          UninitializedRefuses /\ KeyOnlyInitSucceeds /\ FailedInitChangesNothing)
  /\ [][revision = "builtin" => InitializedForGood]_vars

====
